---- MODULE Spec2Model ----
(***************************************************************************)
(* eye-of-reth: the txpoolExt_getCensoredTransactions query                *)
(* (src/src/main.rs) and the transaction runner RethRunner                 *)
(* (src/src/simulation.rs).                                                *)
(*                                                                         *)
(* Time is counted in ticks, TicksPerSec ticks to the second, so that the  *)
(* truncation of Duration::as_secs is visible.  Balances, nonces and       *)
(* transfers stand for the account state the EVM reads and writes; gas is  *)
(* priced at zero.                                                         *)
(***************************************************************************)
EXTENDS Integers, Sequences, FiniteSets, TLC

\* ------------------------------------------------------------------ bounds
TicksPerSec == 2
MaxPool == 3
MaxTicks == 2
MaxBlock == 2
MaxRuns == 2

\* ------------------------------------------------------------ the universe
Address == {"A", "B"}
\* Option<Address>::None, the key of the bucket of unrecoverable signers.
None == "None"

\* const BLOCK_TIME: u64 = 12 * 2;
BLOCK_TIME == 12 * 2

\* The clock when the node is first observed, and how far one step of the
\* clock moves it.
NowStart == 25 * TicksPerSec
ClockStep == 5 * TicksPerSec
MaxNow == NowStart + MaxTicks * ClockStep

\* The pending transactions the pool may hold: the signed payload (hash,
\* the signer its signature recovers to, nonce, value, recipient) and the
\* pool-entry Instant.  Hash 4 carries a signature that does not recover;
\* hash 5 carries an Instant ahead of the clock (Instants are monotonic only
\* barring platform bugs, which is what duration_since saturates for).
TxUniverse ==
    { [hash |-> 1, sig |-> "A", nonce |-> 0, value |-> 2, to |-> "B", timestamp |-> 0],
      [hash |-> 2, sig |-> "A", nonce |-> 1, value |-> 1, to |-> "B", timestamp |-> 4],
      [hash |-> 3, sig |-> "B", nonce |-> 0, value |-> 1, to |-> "A", timestamp |-> 20],
      [hash |-> 4, sig |-> None, nonce |-> 0, value |-> 0, to |-> "A", timestamp |-> 1],
      [hash |-> 5, sig |-> "B", nonce |-> 1, value |-> 1, to |-> "A", timestamp |-> MaxNow + ClockStep + 1] }

Hashes == {t.hash : t \in TxUniverse}

PoolTx(h) == CHOOSE t \in TxUniverse : t.hash = h

\* The priority-ordered views best_transactions() can hand out: every
\* sequence of at most MaxPool distinct pending transactions.
Pools ==
    { p \in UNION {[1..n -> TxUniverse] : n \in 0..MaxPool} :
        \A i, j \in DOMAIN p : i # j => p[i].hash # p[j].hash }

\* The account state at genesis.
GenesisState ==
    [a \in Address |-> IF a = "A" THEN [balance |-> 2, nonce |-> 0]
                                  ELSE [balance |-> 1, nonce |-> 0]]

VARIABLES
    pool,            \* the pool's pending transactions, in priority order
    now,             \* the monotonic clock, in ticks
    pc,              \* position of the query handler
    best_txs,        \* the rest of the best_transactions() iterator
    censored_txs,    \* Vec<TransactionSigned> built by the scan
    group_iter,      \* the rest of `for tx in censored_txs`
    sender_to_txs,   \* HashMap<Option<Address>, Vec<TransactionSigned>>
    executed,        \* the transaction executions simulate performed
    ret,             \* what the query returned
    verdict,         \* per hash: the latest classification and its clock
    db_ok,           \* whether the provider's storage answers
    chain,           \* chain[b]: account state as of canonical block b;
                     \* the latest canonical block is Len(chain), 0 = none yet
    rpc,             \* position of RethRunner::run
    run_tx,          \* run's argument tx
    run_sender,      \* run's argument sender
    latest_block_header, \* run's local: the header it fetched
    runs             \* log of the calls of run that returned

vars == <<pool, now, pc, best_txs, censored_txs, group_iter, sender_to_txs,
          executed, ret, verdict, db_ok, chain, rpc, run_tx, run_sender,
          latest_block_header, runs>>

queryVars == <<pc, best_txs, censored_txs, group_iter, sender_to_txs,
               executed, ret, verdict>>
chainVars == <<db_ok, chain>>
runVars == <<rpc, run_tx, run_sender, latest_block_header, runs>>

\* ---------------------------------------------------------- main.rs: scan

\* Instant::duration_since: saturates at zero when `earlier` is later.
\* (Variant: a wrapping subtraction on 16 bits instead of a saturating one.)
duration_since_wrapping(later, earlier) == (later - earlier) % 65536
duration_since(later, earlier) ==
    IF later >= earlier THEN later - earlier ELSE 0

\* Duration::as_secs: the whole seconds, the fraction dropped.
as_secs(d) == d \div TicksPerSec

\* tx_age > BLOCK_TIME
\* (Variant: the comparison turned round.)
age_flipped(tx_age) == tx_age < BLOCK_TIME
age_test(tx_age) == tx_age > BLOCK_TIME

\* let tx_age = now.duration_since(pool_tx.timestamp).as_secs();
\* if tx_age > BLOCK_TIME
is_censored(pool_tx, t) == age_test(as_secs(duration_since(t, pool_tx.timestamp)))

\* pool_tx.to_recovered_transaction().into_signed(): the signed payload
\* without the pool's bookkeeping.
into_signed(pool_tx) ==
    [hash |-> pool_tx.hash, sig |-> pool_tx.sig, nonce |-> pool_tx.nonce,
     value |-> pool_tx.value, to |-> pool_tx.to]

\* censored_txs.push(tx)
push(v, tx) == Append(v, tx)

\* tx.recover_signer(): Some(address) or None.
recover_signer(tx) == tx.sig

\* sender_to_txs.entry(sender).or_insert_with(|| Vec::new()).push(tx)
\* (Variants: insert(sender, vec![tx]) overwriting the backlog, and an
\* insert at the front of the backlog.)
entry_insert(m, sender, tx) ==
    IF sender \in DOMAIN m THEN [m EXCEPT ![sender] = <<tx>>]
    ELSE m @@ (sender :> <<tx>>)
entry_push_front(m, sender, tx) ==
    IF sender \in DOMAIN m THEN [m EXCEPT ![sender] = <<tx>> \o @]
    ELSE m @@ (sender :> <<tx>>)
entry_push(m, sender, tx) ==
    IF sender \in DOMAIN m THEN [m EXCEPT ![sender] = push(@, tx)]
    ELSE m @@ (sender :> push(<<>>, tx))

\* HashMap::new()
EmptyMap == [k \in {} |-> <<>>]

\* simulate(txs) -> eyre::Result<()>: Ok(()) with no transaction executed.
simulate(txs) == [result |-> "Ok", executed |-> <<>>]

\* No classification yet; a classification keeps the one before it.
Unseen ==
    [seen |-> FALSE, censored |-> FALSE, at |-> 0,
     again |-> FALSE, was |-> FALSE, was_at |-> 0]

Classified(old, c, t) ==
    [seen |-> TRUE, censored |-> c, at |-> t,
     again |-> old.seen, was |-> old.censored, was_at |-> old.at]

\* ------------------------------------------------------------------- Init
QueryIdle ==
    /\ pc = "idle"
    /\ best_txs = <<>>
    /\ censored_txs = <<>>
    /\ group_iter = <<>>
    /\ sender_to_txs = EmptyMap
    /\ executed = <<>>
    /\ ret = [kind |-> "none", value |-> 0]
    /\ verdict = [h \in Hashes |-> Unseen]

RunnerIdle ==
    /\ rpc = "idle"
    /\ run_tx = 0
    /\ run_sender = None
    /\ latest_block_header = 0
    /\ runs = <<>>

\* The node as the query finds it: any pool, with or without a canonical
\* head, with or without reachable storage.
Init ==
    /\ pool \in Pools
    /\ now = NowStart
    /\ QueryIdle
    /\ chain \in {<<>>, <<GenesisState>>}
    /\ db_ok \in BOOLEAN
    /\ RunnerIdle

\* ------------------------------------------------- get_censored_transactions

\* let best_txs = &mut self.pool.best_transactions();
\* let mut censored_txs = Vec::new();
Call ==
    /\ pc \in {"idle", "done"}
    /\ pc' = "scan"
    /\ best_txs' = pool
    /\ censored_txs' = <<>>
    /\ group_iter' = <<>>
    /\ sender_to_txs' = EmptyMap
    /\ executed' = <<>>
    /\ ret' = [kind |-> "none", value |-> 0]
    /\ UNCHANGED <<pool, now, verdict, chainVars, runVars>>

\* One turn of `while let Some(pool_tx) = best_txs.next()`.
ScanNext ==
    /\ pc = "scan"
    /\ best_txs # <<>>
    /\ LET pool_tx == Head(best_txs)
           c == is_censored(pool_tx, now)
       IN /\ best_txs' = Tail(best_txs)
          /\ censored_txs' = IF c THEN push(censored_txs, into_signed(pool_tx))
                                  ELSE censored_txs
          /\ verdict' = [verdict EXCEPT ![pool_tx.hash] = Classified(@, c, now)]
    /\ UNCHANGED <<pool, now, pc, group_iter, sender_to_txs, executed, ret,
                   chainVars, runVars>>

\* best_txs.next() is None: the scan is over, the grouping starts.
ScanEnd ==
    /\ pc = "scan"
    /\ best_txs = <<>>
    /\ pc' = "group"
    /\ sender_to_txs' = EmptyMap
    /\ group_iter' = censored_txs
    /\ UNCHANGED <<pool, now, best_txs, censored_txs, executed, ret, verdict,
                   chainVars, runVars>>

\* One turn of `for tx in censored_txs`.
GroupNext ==
    /\ pc = "group"
    /\ group_iter # <<>>
    /\ LET tx == Head(group_iter)
           sender == recover_signer(tx)
       IN /\ sender_to_txs' = entry_push(sender_to_txs, sender, tx)
          /\ group_iter' = Tail(group_iter)
    /\ UNCHANGED <<pool, now, pc, best_txs, censored_txs, executed, ret,
                   verdict, chainVars, runVars>>

\* simulate(sender_to_txs); ... Ok(0)
SimulateAndReturn ==
    /\ pc = "group"
    /\ group_iter = <<>>
    /\ executed' = simulate(sender_to_txs).executed
    /\ ret' = [kind |-> "Ok", value |-> 0]
    /\ pc' = "done"
    /\ UNCHANGED <<pool, now, best_txs, censored_txs, group_iter,
                   sender_to_txs, verdict, chainVars, runVars>>

\* Instant::now() moves on between two reads.
TimePasses ==
    /\ now + ClockStep <= MaxNow
    /\ now' = now + ClockStep
    /\ UNCHANGED <<pool, queryVars, chainVars, runVars>>

\* ------------------------------------------------------ simulation.rs: run

\* A state diff laid over a state: the accounts the diff names replaced.
Apply(state, diff) ==
    [a \in Address |-> IF a \in DOMAIN diff THEN diff[a] ELSE state[a]]

\* CacheDB::new(Arc::clone(&state)): a fresh overlay, nothing cached, over
\* the state the provider returned.
CacheDB_new(state) == Apply(state, EmptyMap)

\* fill_tx_env(evm.tx_mut(), tx, sender); evm.transact(): the transaction
\* with `sender` as its caller, executed on db without committing.  A nonce
\* that is not the caller's, or a value the caller cannot pay, is an invalid
\* transaction (an Err); otherwise the result carries the touched accounts.
transact(db, tx, sender) ==
    IF tx.nonce # db[sender].nonce \/ db[sender].balance < tx.value
    THEN [kind |-> "Err", msg |-> "Error executing transaction", state |-> EmptyMap]
    ELSE LET paid == [db[sender] EXCEPT !.balance = @ - tx.value, !.nonce = @ + 1]
             mid == (sender :> paid) @@ db
         IN [kind |-> "Ok", msg |-> "Success",
             state |-> (tx.to :> [mid[tx.to] EXCEPT !.balance = @ + tx.value])
                       @@ (sender :> paid)]

\* The provider's answer to latest_header(): an error, no header, or the
\* number of the latest canonical block.
latest_header ==
    IF ~db_ok THEN [kind |-> "Err", header |-> 0]
    ELSE [kind |-> "Ok", header |-> Len(chain)]

Returned(outcome, block) ==
    /\ runs' = Append(runs, [tx |-> run_tx.hash, sender |-> run_sender,
                              block |-> block, outcome |-> outcome])
    /\ rpc' = "idle"
    /\ run_tx' = 0
    /\ run_sender' = None
    /\ latest_block_header' = 0

\* run(&self, tx: &TransactionSigned, sender: Address) is entered.
RunCall ==
    /\ rpc = "idle"
    /\ Len(runs) < MaxRuns
    /\ \E t \in TxUniverse, sender \in Address :
          /\ run_tx' = into_signed(t)
          /\ run_sender' = sender
    /\ rpc' = "header"
    /\ UNCHANGED <<pool, now, queryVars, chainVars, latest_block_header, runs>>

\* let latest_block_header = self.provider.latest_header()
\*     .map_err(..)?.unwrap();
RunFetchHeader ==
    /\ rpc = "header"
    /\ LET h == latest_header
       IN IF h.kind = "Err"
          THEN Returned([kind |-> "Err", msg |-> "Error fetching latest sealed header",
                         state |-> EmptyMap], 0)
          ELSE IF h.header = 0
          THEN Returned([kind |-> "Panic", msg |-> "unwrap on None",
                         state |-> EmptyMap], 0)
          ELSE /\ latest_block_header' = h.header
               /\ rpc' = "fetched"
               /\ UNCHANGED <<run_tx, run_sender, runs>>
    /\ UNCHANGED <<pool, now, queryVars, chainVars>>

\* (Variant: the execution committed into the state shared by all calls.)
RunTransactCommitting ==
    /\ rpc = "fetched"
    /\ IF ~db_ok
       THEN /\ Returned([kind |-> "Err", msg |-> "Error fetching latest block",
                         state |-> EmptyMap], latest_block_header)
            /\ UNCHANGED chain
       ELSE LET latest_state == chain[latest_block_header]
                db == CacheDB_new(latest_state)
                out == transact(db, run_tx, run_sender)
            IN /\ Returned(out, latest_block_header)
               /\ chain' = [chain EXCEPT ![latest_block_header] = Apply(@, out.state)]
    /\ UNCHANGED <<pool, now, queryVars, db_ok>>

\* The rest of run: block_by_hash and state_by_block_hash of the fetched
\* header's hash, a fresh CacheDB over that state, transact.
RunTransact ==
    /\ rpc = "fetched"
    /\ IF ~db_ok
       THEN Returned([kind |-> "Err", msg |-> "Error fetching latest block",
                      state |-> EmptyMap], latest_block_header)
       ELSE LET latest_state == chain[latest_block_header]
                db == CacheDB_new(latest_state)
            IN Returned(transact(db, run_tx, run_sender), latest_block_header)
    /\ UNCHANGED <<pool, now, queryVars, chainVars>>

\* ------------------------------------------------------------- the node

\* A block becomes canonical: the first one carries the genesis state, a
\* later one the state of its parent with at most one valid pending
\* transaction of the universe applied.
NewCanonicalBlock ==
    /\ Len(chain) < MaxBlock
    /\ IF chain = <<>>
       THEN chain' = <<GenesisState>>
       ELSE LET parent == chain[Len(chain)]
            IN \/ chain' = Append(chain, parent)
               \/ \E t \in {u \in TxUniverse : u.sig \in Address} :
                     /\ transact(parent, into_signed(t), t.sig).kind = "Ok"
                     /\ chain' = Append(chain,
                            Apply(parent, transact(parent, into_signed(t), t.sig).state))
    /\ UNCHANGED <<pool, now, queryVars, db_ok, runVars>>

\* The storage behind the provider becomes unreachable, or reachable again.
StorageFlips ==
    /\ db_ok' = ~db_ok
    /\ UNCHANGED <<pool, now, queryVars, chain, runVars>>

Next ==
    \/ Call
    \/ ScanNext
    \/ ScanEnd
    \/ GroupNext
    \/ SimulateAndReturn
    \/ TimePasses

Spec == Init /\ [][Next]_vars

\* The runner and the node around it, with the query at rest.
RunInit ==
    /\ pool = <<>>
    /\ now = NowStart
    /\ QueryIdle
    /\ chain \in {<<>>, <<GenesisState>>}
    /\ db_ok = TRUE
    /\ RunnerIdle

RunNext ==
    \/ RunCall
    \/ RunFetchHeader
    \/ RunTransact
    \/ NewCanonicalBlock
    \/ StorageFlips

RunSpec == RunInit /\ [][RunNext]_vars

\* ------------------------------------------------------------- properties

Range(f) == {f[i] : i \in DOMAIN f}

Signed(seq) == [i \in DOMAIN seq |-> into_signed(seq[i])]

\* The grouping loop of the running query has ended.
GroupOver == (pc = "group" /\ group_iter = <<>>) \/ pc = "done"

\* The backlog the query holds for key k, empty when it holds none.
Backlog(k) == IF k \in DOMAIN sender_to_txs THEN sender_to_txs[k] ELSE <<>>

\* The pool's priority order restricted to the transactions the pass
\* classified censored whose signer recovers to k.
CensoredOf(k) ==
    Signed(SelectSeq(pool, LAMBDA t : verdict[t.hash].censored /\ t.sig = k))

\* Where a hash occurs in the backlogs.
Places(h) ==
    {<<k, i>> \in (DOMAIN sender_to_txs) \X (1..Len(pool)) :
        i \in DOMAIN sender_to_txs[k] /\ sender_to_txs[k][i].hash = h}

\* The state snapshot of the latest canonical block can be obtained.
SnapshotAvailable == db_ok /\ chain # <<>>

Snapshot == chain[Len(chain)]

\* The overlay the i-th transaction of a backlog is to be evaluated on:
\* the snapshot with the diff of every earlier Valid transaction of the
\* backlog folded in, and nothing folded in for one that failed.
RECURSIVE OverlayBefore(_, _, _, _)
OverlayBefore(snapshot, backlog, sender, i) ==
    IF i = 1 THEN snapshot
    ELSE LET before == OverlayBefore(snapshot, backlog, sender, i - 1)
             o == transact(before, backlog[i - 1], sender)
         IN IF o.kind = "Ok" THEN Apply(before, o.state) ELSE before

\* The censored transactions of sender k that are still valid when the
\* backlog of k is re-simulated in order.  A transaction whose signer does
\* not recover has no caller to execute as and counts as not valid.
StillValid(k) ==
    {i \in DOMAIN CensoredOf(k) :
        transact(OverlayBefore(Snapshot, CensoredOf(k), k, i), CensoredOf(k)[i], k).kind = "Ok"}

RECURSIVE SumValid(_)
SumValid(ks) ==
    IF ks = {} THEN 0
    ELSE LET k == CHOOSE x \in ks : TRUE
         IN Cardinality(StillValid(k)) + SumValid(ks \ {k})

\* C1: the count query returns the number of censored transactions that are
\* still valid when re-simulated per sender (so a non-zero count as soon as
\* one censored transaction is still valid).
C1_CountsStillValid ==
    (pc = "done" /\ SnapshotAvailable) =>
        ret = [kind |-> "Ok", value |-> SumValid(Address)]

\* C2: when the snapshot cannot be obtained (no canonical head, or storage
\* unreachable) the query returns an explicit error, never a successful
\* result.
C2_ErrorWhenStateUnavailable ==
    (pc = "done" /\ ~SnapshotAvailable) => ret.kind = "Err"

\* C3: after the grouping loop every censored transaction is in exactly one
\* place of sender_to_txs, in the backlog of its recovered signer (the None
\* bucket when it does not recover), and the backlogs hold nothing else.
C3_GroupingIsPartition ==
    GroupOver =>
        /\ \A t \in Range(pool) :
              verdict[t.hash].censored =>
                 /\ Cardinality(Places(t.hash)) = 1
                 /\ \A pl \in Places(t.hash) : pl[1] = recover_signer(into_signed(t))
        /\ \A k \in DOMAIN sender_to_txs : \A i \in DOMAIN sender_to_txs[k] :
              \E t \in Range(pool) :
                 /\ verdict[t.hash].censored
                 /\ sender_to_txs[k][i] = into_signed(t)

\* Two censored transactions of one sender and one whose signer does not
\* recover.
C3_Witness ==
    /\ GroupOver
    /\ Cardinality(DOMAIN sender_to_txs) = 2
    /\ \E k \in DOMAIN sender_to_txs : Len(sender_to_txs[k]) = 2
    /\ None \in DOMAIN sender_to_txs

\* C4: every backlog is the pool's priority order restricted to the censored
\* transactions of that sender, in the same relative order.
C4_OrderPreserved ==
    GroupOver => \A k \in Address \cup {None} : Backlog(k) = CensoredOf(k)

\* A backlog of two built from a pool where the later-hashed transaction
\* comes first.
C4_Witness ==
    /\ GroupOver
    /\ \E k \in DOMAIN sender_to_txs :
          /\ Len(sender_to_txs[k]) = 2
          /\ sender_to_txs[k][1].hash > sender_to_txs[k][2].hash
    /\ Len(censored_txs) = 3

\* C5: with the entry timestamp and the threshold fixed, a transaction
\* classified censored is classified censored at every later clock.
C5_CensoredStaysCensored ==
    \A h \in Hashes :
        (verdict[h].again /\ verdict[h].was /\ verdict[h].at >= verdict[h].was_at)
            => verdict[h].censored

\* A transaction classified censored, and censored again at a later clock.
C5_Witness ==
    \E h \in Hashes :
        /\ verdict[h].again /\ verdict[h].was
        /\ verdict[h].at > verdict[h].was_at
        /\ verdict[h].censored

\* What simulate executed for sender k.
ExecutedFor(k) == SelectSeq(executed, LAMBDA e : e.sender = k)

\* C6: within one sender backlog the transactions are executed in backlog
\* order, each one evaluated, on the overlay of its predecessor plus the
\* predecessor's diff when that one was Valid and on the same overlay when
\* it failed.
C6_FoldingDiscipline ==
    (pc = "done" /\ SnapshotAvailable) =>
        \A k \in (DOMAIN sender_to_txs) \cap Address :
            /\ Len(ExecutedFor(k)) = Len(sender_to_txs[k])
            /\ \A i \in DOMAIN ExecutedFor(k) :
                  /\ ExecutedFor(k)[i].tx = sender_to_txs[k][i].hash
                  /\ ExecutedFor(k)[i].overlay =
                        OverlayBefore(Snapshot, sender_to_txs[k], k, i)

\* A call of run that reached evm.transact().
Transacted(r) == r.outcome.msg \in {"Success", "Error executing transaction"}

\* C7: all the executions of one run of evaluations are against the state
\* and header of the same canonical block, also when the head advances
\* between two of them.
C7_SameBlockForAll ==
    \A i, j \in DOMAIN runs :
        (Transacted(runs[i]) /\ Transacted(runs[j])) => runs[i].block = runs[j].block

\* C8: run has no effect beyond its outcome: whatever ran before, a call
\* returned what an execution of its transaction against the state of its
\* block yields, and that state is as it was.
C8_RunLeavesNoTrace ==
    \A i \in DOMAIN runs :
        Transacted(runs[i]) =>
            runs[i].outcome =
                transact(chain[runs[i].block], into_signed(PoolTx(runs[i].tx)),
                         runs[i].sender)

\* A transaction that succeeded, and a later call against the same block.
C8_Witness ==
    \E i, j \in DOMAIN runs :
        /\ i < j
        /\ runs[i].outcome.kind = "Ok"
        /\ Transacted(runs[j])
        /\ runs[j].block = runs[i].block
        /\ runs[j].sender = runs[i].sender

\* C9: a transaction whose entry timestamp is later than the clock is
\* classified not censored.
C9_FutureNotCensored ==
    \A h \in Hashes :
        (verdict[h].seen /\ PoolTx(h).timestamp > verdict[h].at)
            => ~verdict[h].censored

\* A transaction scanned at a clock earlier than its entry timestamp.
C9_Witness ==
    \E h \in Hashes : verdict[h].seen /\ PoolTx(h).timestamp > verdict[h].at

\* C10: the scan keeps exactly the transactions older than 12 seconds; one
\* that entered 20 seconds ago is kept.
C10_KeepsOlderThan12s ==
    \A h \in Hashes :
        verdict[h].seen =>
            (verdict[h].censored <=>
                as_secs(duration_since(verdict[h].at, PoolTx(h).timestamp)) > 12)

====
